---- MODULE Spec2Model ----
(***************************************************************************)
(* SmartShop Pro (src/app.py): a Streamlit script.  Every user interaction *)
(* re-executes the script from the top; one action below is one script run *)
(* (with the st.rerun() it triggers, if any).  `out` is the page the last  *)
(* run rendered, together with the module-level values it computed.        *)
(*                                                                         *)
(* Numbers: pandas/numpy floats are modelled by exact rationals <<n, d>>   *)
(* with d > 0 (rounding is abstracted away); numpy's inf and nan, which a  *)
(* division by zero produces instead of an exception, are kept as kinds.   *)
(* Dates are always parsable ISO strings (an unparsable date is outside    *)
(* the model).                                                              *)
(***************************************************************************)
EXTENDS Integers, Sequences, FiniteSets, TLC

VARIABLES logged_in, user, users, store, goal, alert_limit, out

vars == <<logged_in, user, users, store, goal, alert_limit, out>>

(***************************** bounds and inputs ***************************)

\* Largest number of rows the sales table is allowed to grow to by the form.
MaxStore == 2

\* range(1, 8): the forecast covers 7 days.
ForecastDays == 7

\* st.sidebar.number_input("Monthly Target", value=100000)
GoalDefault == 100000

\* st.sidebar.slider("Profit Alert Threshold (%)", 5, 30, 15)
AlertMin == 5

AlertMax == 30

AlertDefault == 15

Usernames == {"owner"}

Passwords == {"secret"}

\* Dates as pandas sees them (days since the Unix epoch) for the ISO strings
\* the store holds.
DateOrdinal ==
  [s \in {"2024-01-01", "2024-01-02", "2024-01-03"} |->
     CASE s = "2024-01-01" -> 19723
       [] s = "2024-01-02" -> 19724
       [] s = "2024-01-03" -> 19725]

DateInputs == {19723, 19724, 19725}

CategoryInputs == {"Electronics"}

\* <<revenue, expense>> pairs typed into the form (both >= 0.0).
AmountInputs == {<<0, 85000>>, <<50000, 0>>, <<100000, 85000>>}

QuantityInputs == {1}

GoalInputs == {0 - 100000, 0, GoalDefault}

AlertInputs == {AlertMin, AlertDefault, AlertMax}

(******************************* raw values ********************************)

\* A JSON value of a row as PostgREST returns it: a number, a string or null.
Num(n) == [num |-> n]

Str(s) == [str |-> s]

Null == [null |-> TRUE]

NaN == [nan |-> TRUE]

\* Strings that pd.to_numeric parses, with their values.
NumericStrings ==
  [s \in {"100000", "85000", "3"} |->
     CASE s = "100000" -> 100000
       [] s = "85000" -> 85000
       [] s = "3" -> 3]

\* pd.to_numeric(col, errors='coerce'): numbers stay, numeric strings are
\* parsed, everything else (None, "abc") becomes NaN.
ToNumeric(v) ==
  IF "num" \in DOMAIN v THEN v
  ELSE IF "str" \in DOMAIN v /\ v.str \in DOMAIN NumericStrings
       THEN Num(NumericStrings[v.str])
       ELSE NaN

\* Mutant of FillNa: the missing values are filled with 1.
FillNaOne(x, d) == IF "nan" \in DOMAIN x THEN 1 ELSE x.num

\* .fillna(0)
FillNa(x, d) == IF "nan" \in DOMAIN x THEN d ELSE x.num

\* pd.to_datetime on one ISO date string.
ToDatetime(s) == DateOrdinal[s]

\* str(s_date) of the form's date.
DateStr(d) == CHOOSE s \in DOMAIN DateOrdinal : DateOrdinal[s] = d

(******************************* arithmetic ********************************)

Abs(n) == IF n < 0 THEN 0 - n ELSE n

RECURSIVE GCD(_, _)
GCD(a, b) == IF b = 0 THEN a ELSE GCD(b, a % b)

\* The rational n/d (d # 0) in lowest terms with a positive denominator.
Rat(n, d) ==
  LET g == GCD(Abs(n), Abs(d))
      s == IF d < 0 THEN 0 - 1 ELSE 1
  IN  <<(s * n) \div g, (s * d) \div g>>

RatLt(a, b) == a[1] * b[2] < b[1] * a[2]

RatLe(a, b) == a[1] * b[2] <= b[1] * a[2]

(***************************** the data engine *****************************)

\* Mutant of FetchAllSales: the rows an earlier run fetched are reused.
FetchAllSalesCached(table) == IF out.res # <<>> THEN out.res ELSE table

\* client.table("sales").select("*").execute().data: the whole table, read
\* anew by every run.
FetchAllSales(table) == table

\* Lines 74-78 for one row; `index` is the DataFrame's RangeIndex, i.e. the
\* row's position in the fetched list.
CleanRow(row, i) ==
  LET revenue == FillNa(ToNumeric(row.revenue), 0)
      expense == FillNa(ToNumeric(row.expense), 0)
      quantity == FillNa(ToNumeric(row.quantity), 0)
  IN  [index |-> i,
       date |-> ToDatetime(row.date),
       product |-> row.product,
       revenue |-> revenue,
       expense |-> expense,
       quantity |-> quantity,
       profit |-> revenue - expense,
       created_by |-> row.created_by]

\* pd.DataFrame(res.data) followed by the numeric cleaning: every fetched row
\* stays a row.
Clean(res) == [i \in 1..Len(res) |-> CleanRow(res[i], i - 1)]

IsSortedByDate(df) ==
  \A i \in 1..Len(df) : \A j \in 1..Len(df) : i < j => df[i].date <= df[j].date

Reorderings(df) ==
  LET n == Len(df)
      perms == {f \in [1..n -> 1..n] : \A i \in 1..n : \E j \in 1..n : f[j] = i}
  IN  {[i \in 1..n |-> df[f[i]]] : f \in perms}

\* Mutant of SortValues: the frame is left in arrival order.
SortValuesUnsorted(df) == {df}

\* df.sort_values("date"): kind defaults to 'quicksort', which pandas
\* documents as not stable, so rows with equal dates may come out in any
\* order; every date-ordered arrangement of the rows is a possible result.
SortValues(df) == {s \in Reorderings(df) : IsSortedByDate(s)}

(********************************** KPIs ***********************************)

RECURSIVE SumUpTo(_, _, _)
SumUpTo(df, col, n) ==
  IF n = 0 THEN 0 ELSE SumUpTo(df, col, n - 1) + df[n][col]

\* df[col].sum()
ColumnSum(df, col) == SumUpTo(df, col, Len(df))

\* Mutant of Margin: the t_rev > 0 guard is missing, so a zero revenue is
\* divided by.
MarginNoGuard(t_rev, t_prof) ==
  IF t_rev # 0 THEN Rat(t_prof * 100, t_rev) ELSE <<t_prof * 100, 0>>

\* (t_prof / t_rev * 100) if t_rev > 0 else 0
Margin(t_rev, t_prof) ==
  IF t_rev > 0 THEN Rat(t_prof * 100, t_rev) ELSE <<0, 1>>

\* The four st.metric values of the top row.
Kpi(df) ==
  LET t_rev == ColumnSum(df, "revenue")
      t_prof == ColumnSum(df, "profit")
  IN  [t_rev |-> t_rev,
       t_prof |-> t_prof,
       margin |-> Margin(t_rev, t_prof),
       units |-> ColumnSum(df, "quantity"),
       avg_ticket |-> Rat(t_rev, Len(df))]

(******************************* alert system ******************************)

\* Mutant of AlertStatus: an alert raised by the previous run stays raised.
AlertStatusSticky(margin, limit) ==
  IF out.alert = <<"BELOW_THRESHOLD">> \/ RatLt(margin, <<limit, 1>>)
  THEN "BELOW_THRESHOLD" ELSE "HEALTHY"

\* if margin < alert_limit: ... else: ...
AlertStatus(margin, limit) ==
  IF RatLt(margin, <<limit, 1>>) THEN "BELOW_THRESHOLD" ELSE "HEALTHY"

\* Keyword arguments st.markdown accepts.
MarkdownKeywords == {"unsafe_allow_html", "help"}

\* st.markdown(html, unsafe_content=True): a keyword the function does not
\* have is a TypeError, which ends the script run.
MarkdownCall(keyword) ==
  IF keyword \in MarkdownKeywords THEN "ok" ELSE "TypeError"

\* What the BELOW_THRESHOLD branch puts on the page before st.markdown is
\* called: the st.error text and the mailto body.
AlertPayload(kpi, limit) ==
  [margin |-> kpi.margin, limit |-> limit, t_rev |-> kpi.t_rev, t_prof |-> kpi.t_prof]

(******************************* goal tracking *****************************)

\* t_rev / goal on a numpy scalar: a zero divisor gives inf or nan (with a
\* RuntimeWarning), not an exception.
Quotient(t_rev, g) ==
  IF g # 0 THEN [kind |-> "finite", value |-> Rat(t_rev, g)]
  ELSE IF t_rev > 0 THEN [kind |-> "inf", value |-> <<1, 1>>]
  ELSE IF t_rev < 0 THEN [kind |-> "-inf", value |-> <<0 - 1, 1>>]
  ELSE [kind |-> "nan", value |-> <<0, 1>>]

One == [kind |-> "finite", value |-> <<1, 1>>]

\* a < b on floats; every comparison with nan is False.
FloatLt(a, b) ==
  IF a.kind = "nan" \/ b.kind = "nan" THEN FALSE
  ELSE IF a.kind = "inf" \/ b.kind = "-inf" THEN FALSE
  ELSE IF a.kind = "-inf" \/ b.kind = "inf" THEN TRUE
  ELSE RatLt(a.value, b.value)

\* progress = min(t_rev / goal, 1.0): Python's min returns the second
\* argument only when it is smaller than the first.
Progress(t_rev, g) ==
  LET q == Quotient(t_rev, g)
  IN  IF FloatLt(One, q) THEN One ELSE q

\* st.progress(value) accepts a float only within [0.0, 1.0] and raises a
\* StreamlitAPIException otherwise (nan included).
ProgressCall(p) ==
  IF p.kind = "finite" /\ RatLe(<<0, 1>>, p.value) /\ RatLe(p.value, <<1, 1>>)
  THEN "ok" ELSE "StreamlitAPIException"

(********************************* forecast ********************************)

RECURSIVE SortedSeq(_)
SortedSeq(S) ==
  IF S = {} THEN <<>>
  ELSE LET m == CHOOSE x \in S : \A y \in S : x <= y
       IN  <<m>> \o SortedSeq(S \ {m})

RECURSIVE RevenueOn(_, _, _)
RevenueOn(df, d, n) ==
  IF n = 0 THEN 0
  ELSE RevenueOn(df, d, n - 1) + (IF df[n].date = d THEN df[n].revenue ELSE 0)

\* df.groupby('date')['revenue'].sum().reset_index(): one row per distinct
\* date, in date order.
Daily(df) ==
  LET dates == SortedSeq({df[i].date : i \in 1..Len(df)})
  IN  [k \in 1..Len(dates) |->
         [date |-> dates[k], revenue |-> RevenueOn(df, dates[k], Len(df))]]

\* Mutant of DayIdx: the position in the sequence instead of the day offset.
DayIdxPositional(daily) == [k \in 1..Len(daily) |-> k - 1]

\* daily['day_idx'] = (daily['date'] - daily['date'].min()).dt.days
DayIdx(daily) == [k \in 1..Len(daily) |-> daily[k].date - daily[1].date]

RECURSIVE Dot(_, _, _)
Dot(xs, ys, n) == IF n = 0 THEN 0 ELSE Dot(xs, ys, n - 1) + xs[n] * ys[n]

RatAdd(a, b) == Rat(a[1] * b[2] + b[1] * a[2], a[2] * b[2])

RatScale(a, k) == Rat(a[1] * k, a[2])

\* LinearRegression().fit(X, y) on one feature: the ordinary least squares
\* line (needs two distinct x, which len(daily) > 1 guarantees).
Fit(xs, ys) ==
  LET n == Len(xs)
      ones == [k \in 1..n |-> 1]
      sx == Dot(xs, ones, n)
      sy == Dot(ys, ones, n)
      sxy == Dot(xs, ys, n)
      sxx == Dot(xs, xs, n)
      d == n * sxx - sx * sx
      b == n * sxy - sx * sy
  IN  [coef |-> Rat(b, d), intercept |-> Rat(sy * d - b * sx, n * d)]

\* model.predict on one x.
Predict(model, x) == RatAdd(model.intercept, RatScale(model.coef, x))

\* Lines 114-124: the "AI Projection" trace, empty when there is a single date.
Forecast(df) ==
  LET daily == Daily(df)
      day_idx == DayIdx(daily)
      n == Len(daily)
  IN  IF n > 1
      THEN LET model == Fit(day_idx, [k \in 1..n |-> daily[k].revenue])
           IN  [i \in 1..ForecastDays |->
                  [date |-> daily[n].date + i,
                   revenue |-> Predict(model, day_idx[n] + i)]]
      ELSE <<>>

(****************************** category share *****************************)

RECURSIVE RevenueOf(_, _, _)
RevenueOf(df, p, n) ==
  IF n = 0 THEN 0
  ELSE RevenueOf(df, p, n - 1) + (IF df[n].product = p THEN df[n].revenue ELSE 0)

\* px.pie(df, values='revenue', names='product'): revenue summed per product.
CategoryShare(df) ==
  {<<df[i].product, RevenueOf(df, df[i].product, Len(df))>> : i \in 1..Len(df)}

(******************************* one script run ****************************)

AllSteps == {"kpi", "alert", "progress", "forecast", "share", "audit"}

\* The page of a run that stopped at the login form (st.stop() at line 47).
LoginPage(msg) ==
  [page |-> "login", raised |-> "none", notice |-> msg, steps |-> {},
   res |-> <<>>, df |-> <<>>, kpi |-> <<>>, alert |-> <<>>, payload |-> <<>>,
   progress |-> <<>>, forecast |-> <<>>, share |-> {}]

\* Mutant of AwaitingPage: the empty table is rendered as a dashboard of
\* zeros.
AwaitingPageZeros(res) ==
  [page |-> "dashboard", raised |-> "none", notice |-> "", steps |-> {"kpi", "alert"},
   res |-> res, df |-> <<>>,
   kpi |-> <<[t_rev |-> 0, t_prof |-> 0, margin |-> <<0, 1>>, units |-> 0,
              avg_ticket |-> <<0, 1>>]>>,
   alert |-> <<"HEALTHY">>, payload |-> <<>>,
   progress |-> <<>>, forecast |-> <<>>, share |-> {}]

\* Lines 137-138: nothing but the st.info notice.
AwaitingPage(res) ==
  [page |-> "awaiting", raised |-> "none",
   notice |-> "Awaiting cloud data", steps |-> {},
   res |-> res, df |-> <<>>, kpi |-> <<>>, alert |-> <<>>, payload |-> <<>>,
   progress |-> <<>>, forecast |-> <<>>, share |-> {}]

\* Lines 81-135 on the cleaned, sorted frame.  An exception ends the run:
\* what was rendered before it stays on the page, nothing after it is
\* computed.
Dashboard(res, df, g, limit) ==
  LET kpi == Kpi(df)
      status == AlertStatus(kpi.margin, limit)
      markdown == IF status = "BELOW_THRESHOLD" THEN MarkdownCall("unsafe_content")
                  ELSE "ok"
      progress == Progress(kpi.t_rev, g)
      base == [page |-> "dashboard", raised |-> "none", notice |-> "",
               steps |-> {"kpi", "alert"},
               res |-> res, df |-> df, kpi |-> <<kpi>>, alert |-> <<status>>,
               payload |-> IF status = "BELOW_THRESHOLD"
                           THEN <<AlertPayload(kpi, limit)>> ELSE <<>>,
               progress |-> <<>>, forecast |-> <<>>, share |-> {}]
  IN  IF markdown # "ok"
      THEN [base EXCEPT !.raised = markdown]
      ELSE IF ProgressCall(progress) # "ok"
      THEN [base EXCEPT !.raised = ProgressCall(progress),
                        !.progress = <<progress>>]
      ELSE [base EXCEPT !.steps = AllSteps,
                        !.progress = <<progress>>,
                        !.forecast = Forecast(df),
                        !.share = CategoryShare(df)]

\* Lines 69-138: the pages one run can render from the table, the goal and
\* the alert threshold.
Pipeline(table, g, limit) ==
  LET res == FetchAllSales(table)
  IN  IF Len(res) = 0
      THEN {AwaitingPage(res)}
      ELSE {Dashboard(res, df, g, limit) : df \in SortValues(Clean(res))}

(********************************* the store *******************************)

\* The row the sidebar form sends (line 59).
FormRow(d, prod, amounts, qty, who) ==
  [date |-> DateStr(d), product |-> prod, revenue |-> Num(amounts[1]),
   expense |-> Num(amounts[2]), quantity |-> Num(qty), created_by |-> who]

\* A row written to the table by another client, whose numeric columns hold
\* whatever JSON value that client sent.
RawRow(d, prod, r, e, q) ==
  [date |-> d, product |-> prod, revenue |-> r, expense |-> e, quantity |-> q,
   created_by |-> "import"]

\* Tables the session can find at its start: the empty one, single rows with
\* missing, unparsable or string-typed numeric fields, three days of revenue
\* 100, 200, 300, two sales on one day followed by a day without sales, and
\* three days whose revenues are on no line.
SeedStores ==
  {<<>>,
   <<RawRow("2024-01-01", "Grocery", Str("abc"), Null, Null)>>,
   <<RawRow("2024-01-01", "Grocery", Null, Str("85000"), Str("3"))>>,
   <<RawRow("2024-01-01", "Grocery", Str("100000"), Str("85000"), Null)>>,
   <<RawRow("2024-01-01", "Grocery", Str("100000"), Str("abc"), Str("3"))>>,
   <<RawRow("2024-01-01", "Grocery", Num(100), Num(0), Num(1)),
     RawRow("2024-01-02", "Grocery", Num(200), Num(0), Num(1)),
     RawRow("2024-01-03", "Grocery", Num(300), Num(0), Num(1))>>,
   <<RawRow("2024-01-01", "Grocery", Num(100), Num(0), Num(1)),
     RawRow("2024-01-01", "Services", Num(100), Num(0), Num(2)),
     RawRow("2024-01-03", "Grocery", Num(400), Num(0), Num(1))>>,
   <<RawRow("2024-01-02", "Grocery", Num(300), Num(0), Num(1)),
     RawRow("2024-01-01", "Grocery", Num(100), Num(0), Num(1)),
     RawRow("2024-01-03", "Services", Num(200), Num(0), Num(1))>>}

(********************************** actions ********************************)

Init ==
  /\ logged_in = FALSE
  /\ user = ""
  /\ users = {}
  /\ store \in SeedStores
  /\ goal = GoalDefault
  /\ alert_limit = AlertDefault
  /\ out = LoginPage("")

\* Lines 44-46: "Register Account".
Register(nu, npw) ==
  /\ ~logged_in
  /\ users' = users \cup {<<nu, npw>>}
  /\ out' = LoginPage("Account created")
  /\ UNCHANGED <<logged_in, user, store, goal, alert_limit>>

\* Lines 32-39 with wrong credentials.
LoginRejected(u, p) ==
  /\ ~logged_in
  /\ <<u, p>> \notin users
  /\ out' = LoginPage("Invalid Credentials")
  /\ UNCHANGED <<logged_in, user, users, store, goal, alert_limit>>

\* Lines 32-37: "Access Dashboard" with a matching row; st.rerun() runs the
\* script again, now past the login gate.
Login(u, p) ==
  /\ ~logged_in
  /\ <<u, p>> \in users
  /\ logged_in' = TRUE
  /\ user' = u
  /\ out' \in Pipeline(store, goal, alert_limit)
  /\ UNCHANGED <<users, store, goal, alert_limit>>

\* Lines 58-62: "Sync to Cloud" inserts one row and st.rerun() runs the
\* script again with the button released.
SyncToCloud(d, prod, amounts, qty) ==
  /\ logged_in
  /\ Len(store) < MaxStore
  /\ store' = Append(store, FormRow(d, prod, amounts, qty, user))
  /\ out' \in Pipeline(store', goal, alert_limit)
  /\ UNCHANGED <<logged_in, user, users, goal, alert_limit>>

\* Any other interaction (moving the goal input or the threshold slider, or
\* none at all) re-executes the script with the widgets' values; each widget
\* change triggers its own run.
Rerun(g, limit) ==
  /\ logged_in
  /\ g = goal \/ limit = alert_limit
  /\ goal' = g
  /\ alert_limit' = limit
  /\ out' \in Pipeline(store, g, limit)
  /\ UNCHANGED <<logged_in, user, users, store>>

Next ==
  \/ \E nu \in Usernames, npw \in Passwords : Register(nu, npw)
  \/ \E u \in Usernames, p \in Passwords : LoginRejected(u, p)
  \/ \E u \in Usernames, p \in Passwords : Login(u, p)
  \/ \E d \in DateInputs, prod \in CategoryInputs, amounts \in AmountInputs,
        qty \in QuantityInputs : SyncToCloud(d, prod, amounts, qty)
  \/ \E g \in GoalInputs, limit \in AlertInputs : Rerun(g, limit)

Spec == Init /\ [][Next]_vars

(***************************************************************************)
(* Properties.  The operators of this section restate what a run should    *)
(* produce directly from the raw rows it fetched (out.res), without using  *)
(* the operators of the pipeline above.                                    *)
(***************************************************************************)

\* A raw numeric field as the cleaned set should hold it: its value when it
\* is a number or parses as one, 0 when it is missing or unparsable.
Coerced(v) ==
  IF "num" \in DOMAIN v THEN v.num
  ELSE IF "str" \in DOMAIN v /\ v.str \in {"100000", "85000", "3"}
       THEN NumericStrings[v.str]
       ELSE 0

RECURSIVE SetSum(_, _)
SetSum(f, S) ==
  IF S = {} THEN 0
  ELSE LET x == CHOOSE y \in S : TRUE IN f[x] + SetSum(f, S \ {x})

RECURSIVE RatSetSum(_, _)
RatSetSum(f, S) ==
  IF S = {} THEN <<0, 1>>
  ELSE LET x == CHOOSE y \in S : TRUE IN RatAdd(f[x], RatSetSum(f, S \ {x}))

Rows == 1..Len(out.res)

TotalRevenue == SetSum([i \in Rows |-> Coerced(out.res[i].revenue)], Rows)

TotalProfit ==
  SetSum([i \in Rows |-> Coerced(out.res[i].revenue) - Coerced(out.res[i].expense)],
         Rows)

\* The run went past the login gate and fetched at least one row.
RanOnRows == logged_in /\ out.res # <<>>

RanOnNothing == logged_in /\ out.res = <<>>

MarginIsRatio ==
  /\ Len(out.kpi) = 1
  /\ out.kpi[1].margin[2] > 0
  /\ TotalRevenue > 0 =>
       out.kpi[1].margin[1] * TotalRevenue = out.kpi[1].margin[2] * TotalProfit * 100
  /\ TotalRevenue = 0 => out.kpi[1].margin = <<0, 1>>
  /\ out.raised \in {"none", "TypeError", "StreamlitAPIException"}

\* C1 as stated: for every record set, the empty one included, marginPct is
\* totalProfit / totalRevenue * 100 when totalRevenue > 0 and 0 when
\* totalRevenue = 0, computed without a division by zero or an error.
C1_MarginEveryRecordSet == logged_in => MarginIsRatio

\* C1 amended: for every non-empty record set marginPct is totalProfit /
\* totalRevenue * 100 when totalRevenue > 0 and 0 when totalRevenue = 0, with
\* no division by zero; for the empty record set no marginPct is computed.
C1_MarginGuard ==
  /\ RanOnRows => MarginIsRatio
  /\ RanOnNothing => out.kpi = <<>> /\ out.raised = "none"

\* A run over rows whose revenues are all 0 but whose profit is not.
C1_Witness ==
  /\ RanOnRows
  /\ TotalRevenue = 0
  /\ TotalProfit < 0
  /\ out.kpi[1].margin = <<0, 1>>

\* The run reached line 104 (it did not stop at the alert).
ReachedGoal == RanOnRows /\ out.raised # "TypeError"

\* C2: with monthlyGoal > 0 the progress ratio is min(totalRevenue /
\* monthlyGoal, 1.0) and lies in [0, 1]; with monthlyGoal <= 0 the
\* computation is suppressed: no ratio, no negative ratio, no exception.
C2_GoalProgress ==
  ReachedGoal =>
    IF goal > 0
    THEN /\ Len(out.progress) = 1
         /\ out.progress[1].kind = "finite"
         /\ IF TotalRevenue >= goal
            THEN out.progress[1].value = <<1, 1>>
            ELSE out.progress[1].value[1] * goal
                   = out.progress[1].value[2] * TotalRevenue
         /\ out.progress[1].value[1] >= 0
         /\ out.progress[1].value[1] <= out.progress[1].value[2]
    ELSE /\ out.progress = <<>>
         /\ out.raised = "none"

\* C3: the alert status is HEALTHY exactly when marginPct >= alertThreshold
\* (equality included) and BELOW_THRESHOLD otherwise, whatever the status of
\* the run before.
C3_AlertStatus ==
  /\ RanOnRows =>
       /\ Len(out.kpi) = 1
       /\ out.alert =
            <<IF out.kpi[1].margin[1] >= alert_limit * out.kpi[1].margin[2]
              THEN "HEALTHY" ELSE "BELOW_THRESHOLD">>
  /\ ~RanOnRows => out.alert = <<>>

\* A margin exactly on the threshold, reported HEALTHY.
C3_Witness ==
  /\ RanOnRows
  /\ out.kpi[1].margin = <<alert_limit, 1>>
  /\ out.alert = <<"HEALTHY">>

ZeroKpi ==
  [t_rev |-> 0, t_prof |-> 0, margin |-> <<0, 1>>, units |-> 0,
   avg_ticket |-> <<0, 1>>]

\* C4 as stated: on an empty record list the run raises nothing and yields
\* all KPIs zero, alert status HEALTHY or suppressed, an empty forecast and
\* an empty category share.
C4_EmptyAllZero ==
  RanOnNothing =>
    /\ out.raised = "none"
    /\ out.kpi = <<ZeroKpi>>
    /\ out.alert \in {<<>>, <<"HEALTHY">>}
    /\ out.forecast = <<>>
    /\ out.share = {}

\* C4 amended: on an empty record list the run raises nothing and renders
\* only the awaiting-data notice: no KPI is produced (none as zero), the alert
\* status is suppressed, the forecast and the category share are empty.
C4_EmptySuppressed ==
  RanOnNothing =>
    /\ out.raised = "none"
    /\ out.page = "awaiting"
    /\ out.steps = {}
    /\ out.kpi = <<>>
    /\ out.alert = <<>>
    /\ out.forecast = <<>>
    /\ out.share = {}

\* A run past the login gate over an empty table.
C4_Witness == RanOnNothing /\ store = <<>> /\ out.page = "awaiting"

\* The calendar dates of the fetched rows.
ObsDates == {DateOrdinal[out.res[i].date] : i \in Rows}

FirstDate == CHOOSE d \in ObsDates : \A e \in ObsDates : d <= e

LastDate == CHOOSE d \in ObsDates : \A e \in ObsDates : e <= d

\* C5: a non-empty record set on fewer than 2 distinct dates gives an empty
\* forecast and no error; on 2 or more distinct dates it gives exactly 7
\* points dated latest date + 1 .. latest date + 7, in ascending order.
C5_ForecastShape ==
  RanOnRows =>
    IF Cardinality(ObsDates) < 2
    THEN out.forecast = <<>> /\ out.raised = "none"
    ELSE /\ Len(out.forecast) = 7
         /\ \A i \in 1..7 : out.forecast[i].date = LastDate + i

Offset(d) == d - FirstDate

RowsOn(d) == {i \in Rows : DateOrdinal[out.res[i].date] = d}

\* The revenue of one calendar date: the sum over all rows of that date.
DayRevenue(d) ==
  SetSum([i \in RowsOn(d) |-> Coerced(out.res[i].revenue)], RowsOn(d))

\* The daily aggregates lie exactly on one line over the offsets.
Collinear ==
  \A d \in ObsDates :
    (DayRevenue(d) - DayRevenue(FirstDate)) * Offset(LastDate)
      = (DayRevenue(LastDate) - DayRevenue(FirstDate)) * Offset(d)

\* Forecast point i equals the value of that line at offset maxOffset + i.
OnObservedLine(i) ==
  out.forecast[i].revenue[1] * Offset(LastDate)
    = out.forecast[i].revenue[2]
        * (DayRevenue(FirstDate) * Offset(LastDate)
           + (DayRevenue(LastDate) - DayRevenue(FirstDate)) * (Offset(LastDate) + i))

\* The line the forecast points lie on: slope from two consecutive points,
\* intercept from the first one.
ForecastSlope ==
  RatAdd(out.forecast[2].revenue, RatScale(out.forecast[1].revenue, 0 - 1))

ForecastIntercept ==
  RatAdd(out.forecast[1].revenue,
         RatScale(ForecastSlope, 0 - (Offset(LastDate) + 1)))

ForecastLine(x) == RatAdd(ForecastIntercept, RatScale(ForecastSlope, x))

Residual(d) == RatAdd(<<DayRevenue(d), 1>>, RatScale(ForecastLine(Offset(d)), 0 - 1))

\* The normal equations of ordinary least squares over (offset, revenue).
NormalEquations ==
  /\ RatSetSum([d \in ObsDates |-> Residual(d)], ObsDates) = <<0, 1>>
  /\ RatSetSum([d \in ObsDates |-> RatScale(Residual(d), Offset(d))], ObsDates)
       = <<0, 1>>

\* The aggregates [(0,100),(1,200),(2,300)].
ExampleAggregates ==
  /\ Cardinality(ObsDates) = 3
  /\ Offset(LastDate) = 2
  /\ \A d \in ObsDates : DayRevenue(d) = 100 + 100 * Offset(d)

\* C6: the forecast is the least-squares line over (days since the earliest
\* date, summed revenue of the date); when the daily aggregates lie on a line
\* a + b*offset, point i is a + b*(maxOffset + i), negative values included;
\* [(0,100),(1,200),(2,300)] gives 400 at offset 3 and 1000 at offset 9.
C6_LeastSquares ==
  (RanOnRows /\ out.forecast # <<>>) =>
    /\ Len(out.forecast) = 7
    /\ \A i \in 1..7 : out.forecast[i].revenue = ForecastLine(Offset(LastDate) + i)
    /\ NormalEquations
    /\ Collinear => \A i \in 1..7 : OnObservedLine(i)
    /\ ExampleAggregates =>
         /\ out.forecast[1].revenue = <<400, 1>>
         /\ out.forecast[7].revenue = <<1000, 1>>

\* Two dates with a day without sales between them and falling revenue: the
\* line is followed below zero.
C6_Witness ==
  /\ RanOnRows
  /\ Len(out.forecast) = 7
  /\ Cardinality(ObsDates) = 2
  /\ Offset(LastDate) = 2
  /\ Collinear
  /\ out.forecast[7].revenue[1] < 0

Malformed(v) == "num" \notin DOMAIN v /\ Coerced(v) = 0

IsPermutation ==
  /\ Len(out.df) = Len(out.res)
  /\ \A i \in Rows :
       \E k \in 1..Len(out.df) :
         /\ out.df[k].index = i - 1
         /\ out.df[k].date = DateOrdinal[out.res[i].date]
         /\ out.df[k].product = out.res[i].product
         /\ out.df[k].created_by = out.res[i].created_by

DateAscending ==
  \A j \in 1..Len(out.df) : \A k \in 1..Len(out.df) :
    j < k => out.df[j].date <= out.df[k].date

ArrivalOrderOnTies ==
  \A j \in 1..Len(out.df) : \A k \in 1..Len(out.df) :
    (j < k /\ out.df[j].date = out.df[k].date) => out.df[j].index < out.df[k].index

\* C8 as stated: the cleaned sequence is a permutation of the fetched rows in
\* ascending date order, rows of one date in their order of arrival.
C8_StableSort ==
  RanOnRows => IsPermutation /\ DateAscending /\ ArrivalOrderOnTies

\* C8 amended: the cleaned sequence is a permutation of the fetched rows in
\* ascending date order; the order of rows of one date is not fixed.
C8_SortedPermutation ==
  RanOnRows => IsPermutation /\ DateAscending

\* Rows that arrived out of date order, cleaned into date order.
C8_Witness ==
  /\ RanOnRows
  /\ Len(out.res) = 2
  /\ DateOrdinal[out.res[1].date] > DateOrdinal[out.res[2].date]
  /\ out.df[1].index = 1
  /\ out.df[2].index = 0

\* What every state after a run shows: the run read the table as it is.
AggregatesTheStore ==
  logged_in =>
    /\ out.res = store
    /\ store # <<>> =>
         /\ Len(out.kpi) = 1
         /\ out.kpi[1].t_rev = TotalRevenue
         /\ out.kpi[1].t_prof = TotalProfit

\* What every step that changes the table does: one row more, read by the
\* run that follows.
InsertsOneRow ==
  store' # store =>
    /\ Len(store') = Len(store) + 1
    /\ SubSeq(store', 1, Len(store)) = store
    /\ out'.res = store'
    /\ Len(out'.kpi) = 1
    /\ out'.kpi[1].t_rev
         = (IF Len(out.kpi) = 1 THEN out.kpi[1].t_rev ELSE 0)
           + Coerced(store'[Len(store')].revenue)

\* C9: the record set a run aggregates is exactly the table at the time of
\* its fetch; a row inserted through the form is in the KPIs of the run that
\* follows, one submission adds exactly one row, and nothing of an earlier
\* run is reused.
C9_FreshFetch == [](AggregatesTheStore) /\ [][InsertsOneRow]_vars

\* A run whose totals include a row the signed-in user has just inserted
\* next to an earlier one.
C9_Witness ==
  /\ logged_in
  /\ Len(store) = 2
  /\ store[2].created_by = user
  /\ out.res = store
  /\ out.kpi[1].t_rev = Coerced(store[1].revenue) + Coerced(store[2].revenue)
  /\ Coerced(store[2].revenue) > 0

\* C10: for a non-empty record set the run reaches its end and yields every
\* output whether the status is HEALTHY or BELOW_THRESHOLD; on
\* BELOW_THRESHOLD it exposes the alert payload and continues to goal
\* progress, forecast and category share.
C10_RunCompletes ==
  RanOnRows =>
    /\ out.raised = "none"
    /\ out.steps = AllSteps
    /\ Len(out.kpi) = 1
    /\ Len(out.alert) = 1
    /\ Len(out.progress) = 1
    /\ out.share # {}
    /\ out.alert = <<"BELOW_THRESHOLD">> => Len(out.payload) = 1

====
